---- MODULE Spec2Model ----
(***************************************************************************)
(* A model of the MCP OAuth example server (src/server.py): the module     *)
(* configuration read from the environment, the route table built by       *)
(* create_app, and one action per request handler.                         *)
(*                                                                         *)
(* Python values and JSON documents are tagged records:                    *)
(*   None  [t |-> "null"]        str   [t |-> "str",  s |-> "..."]         *)
(*   int   [t |-> "int", n |-> 1] bool [t |-> "bool", b |-> TRUE]          *)
(*   list  [t |-> "list", l |-> <<...>>]                                   *)
(*   dict  [t |-> "dict", d |-> [key |-> value]]                           *)
(*   f"{X}/suffix"  [t |-> "fstr", base |-> X, suffix |-> "/suffix"]       *)
(* URL paths are sequences of segments: /mcp/health is <<"mcp","health">>. *)
(*                                                                         *)
(* The protocol endpoint itself (bearer validation and tool dispatch) is   *)
(* implemented inside the fastmcp library; it appears in the route table   *)
(* as the opaque endpoint "mcp_endpoint" and requests to it are not        *)
(* modelled.                                                               *)
(***************************************************************************)
EXTENDS Integers, Sequences, FiniteSets, TLC

\* Bounds of the model.
MaxKeys == 1      \* a request object carries at most this many keys
MaxClock == 1     \* time.time() takes the values 0..MaxClock

VARIABLES
    config,       \* ISSUER, AUDIENCE, CLIENT_SECRET, BASE_URL (module globals)
    production,   \* whether the deployment is a production one (never read by the code)
    transport,    \* the transport create_app was called with
    app,          \* the FastAPI application built by create_app
    now,          \* the wall clock, int(time.time())
    req,          \* the last request received
    resp,         \* the response to it
    issued,       \* the credentials carried by the 201 responses so far
    startup       \* the configuration as loaded at process start

vars == <<config, production, transport, app, now, req, resp, issued, startup>>

----------------------------------------------------------------------------
\* Python values

None == [t |-> "null"]
Str(s) == [t |-> "str", s |-> s]
Num(n) == [t |-> "int", n |-> n]
Bool(b) == [t |-> "bool", b |-> b]
List(l) == [t |-> "list", l |-> l]
Dict(d) == [t |-> "dict", d |-> d]
FStr(base, suffix) == [t |-> "fstr", base |-> base, suffix |-> suffix]
Text(s) == [t |-> "text", s |-> s]

----------------------------------------------------------------------------
\* Module configuration (server.py:24-27)

DefaultIssuer == "https://dev.example.com"
DefaultAudience == "my-mcp-server"
DefaultBaseUrl == "http://127.0.0.1:8000"

\* The process environments considered: nothing set, and everything set.
Environs ==
    { [x \in {} |-> ""],
      [CLERK_ISSUER |-> "https://clerk.example", CLERK_AUDIENCE |-> "tenant-aud",
       CLERK_CLIENT_SECRET |-> "s3cret", BASE_URL |-> "https://mcp.example"] }

getenv(env, name, default) == IF name \in DOMAIN env THEN Str(env[name]) ELSE default

LoadConfig(env) ==
    [ISSUER |-> getenv(env, "CLERK_ISSUER", Str(DefaultIssuer)),
     AUDIENCE |-> getenv(env, "CLERK_AUDIENCE", Str(DefaultAudience)),
     CLIENT_SECRET |-> getenv(env, "CLERK_CLIENT_SECRET", None),
     BASE_URL |-> getenv(env, "BASE_URL", Str(DefaultBaseUrl))]

----------------------------------------------------------------------------
\* Application construction (mcp_factory, create_app)

Route(path, methods, endpoint) ==
    [kind |-> "route", path |-> path, methods |-> methods,
     endpoint |-> endpoint, routes |-> <<>>]
Mount(prefix, routes) ==
    [kind |-> "mount", path |-> prefix, methods |-> {},
     endpoint |-> "", routes |-> routes]

Transports == {"sse", "streamable-http"}

\* The FastMCP object mcp_factory returns: its auth provider settings, its
\* custom routes, its tools, and the attributes set on it.
mcp_factory(cfg) ==
    [auth |-> [jwks_uri |-> FStr(cfg.ISSUER, "/.well-known/jwks.json"),
               issuer |-> cfg.ISSUER, audience |-> cfg.AUDIENCE],
     custom_routes |-> <<Route(<<"health">>, {"GET"}, "health_check")>>,
     tools |-> {"hello", "add_numbers"},
     attrs |-> {"name", "auth"}]

\* mcp.http_app(path, transport): the protocol endpoint at `path`, followed by
\* the server's custom routes.
http_app(mcp, path, tr) ==
    <<Route(path, IF tr = "sse" THEN {"GET"} ELSE {"GET", "POST", "DELETE"},
            "mcp_endpoint")>> \o mcp.custom_routes

create_app(cfg, tr) ==
    LET mcp == mcp_factory(cfg)
        mcp_app == http_app(mcp, <<"mcp">>, tr)
    IN [mcp |-> mcp,
        routes |->
          << Route(<<".well-known", "oauth-authorization-server">>, {"GET"}, "oauth_metadata"),
             Route(<<".well-known", "openid-configuration">>, {"GET"}, "openid_config"),
             Route(<<".well-known", "oauth-protected-resource">>, {"GET"}, "oauth_protected_resource"),
             Route(<<"register">>, {"POST"}, "register"),
             Route(<<"dev", "token">>, {"GET"}, "get_dev_token"),
             Mount(<<"mcp">>, mcp_app) >>]

----------------------------------------------------------------------------
\* Routing (the router of the application and of the mounted application)

IsPrefix(p, q) == Len(p) <= Len(q) /\ SubSeq(q, 1, Len(p)) = p

Matches(r, method, path) ==
    IF r.kind = "mount"
    THEN IF IsPrefix(r.path, path) THEN "FULL" ELSE "NONE"
    ELSE IF r.path # path THEN "NONE"
         ELSE IF method \in r.methods THEN "FULL" ELSE "PARTIAL"

SetMin(S) == CHOOSE i \in S : \A j \in S : i <= j

\* The endpoint a request is dispatched to: the first fully matching route
\* (descending into a mount with the prefix stripped), else 405 when some
\* route matches the path alone, else 404.
RECURSIVE Resolve(_, _, _)
Resolve(routes, method, path) ==
    LET full == {i \in DOMAIN routes : Matches(routes[i], method, path) = "FULL"}
        partial == {i \in DOMAIN routes : Matches(routes[i], method, path) = "PARTIAL"}
    IN IF full # {}
       THEN LET r == routes[SetMin(full)]
            IN IF r.kind = "mount"
               THEN Resolve(r.routes, method, SubSeq(path, Len(r.path) + 1, Len(path)))
               ELSE r.endpoint
       ELSE IF partial # {} THEN "method_not_allowed" ELSE "not_found"

----------------------------------------------------------------------------
\* Requests

OptionalFields ==
    {"redirect_uris", "token_endpoint_auth_method", "grant_types",
     "response_types", "client_name", "scope"}

\* Keys a registration request may carry: the six optional fields, a field
\* outside them, and a credential field.
RequestKeys == OptionalFields \cup {"client_uri", "client_id"}

\* Values a key may be given.
RequestValues == {None, Str("x"), List(<<"https://c.example/cb">>)}

\* JSON objects with at most MaxKeys keys, all keys of one object given the
\* same value.
RequestObjects ==
    { Dict([k \in K |-> v]) :
        K \in {S \in SUBSET RequestKeys : Cardinality(S) <= MaxKeys},
        v \in RequestValues }

\* Valid JSON documents that are not objects.
NonObjects == {List(<<>>), Str("x"), Num(1), Bool(TRUE), None}

\* Raw bodies: a JSON document, or bytes that do not parse.
Unparseable == {"empty", "truncated", "non-utf8", "garbage"}
Bodies ==
    {[k |-> "json", doc |-> d, why |-> ""] : d \in RequestObjects \cup NonObjects}
    \cup {[k |-> "bytes", doc |-> None, why |-> w] : w \in Unparseable}
NoBody == [k |-> "bytes", doc |-> None, why |-> "empty"]

\* The Authorization header of a request.
AuthHeaders == {"absent", "valid-bearer", "invalid-bearer"}

DiscoveryPaths ==
    { <<".well-known", "oauth-authorization-server">>,
      <<".well-known", "openid-configuration">>,
      <<".well-known", "oauth-protected-resource">> }

\* GET requests, with every Authorization header, to the routes that mint or
\* bypass credentials; GET and POST requests without one elsewhere.
Requests ==
    {[method |-> "GET", path |-> p, auth |-> a, body |-> NoBody] :
        p \in {<<"dev", "token">>, <<"health">>, <<"mcp", "health">>},
        a \in AuthHeaders}
    \cup {[method |-> "GET", path |-> p, auth |-> "absent", body |-> NoBody] :
            p \in DiscoveryPaths \cup {<<"register">>}}
    \cup {[method |-> "POST", path |-> <<"register">>, auth |-> "absent", body |-> b] :
            b \in Bodies}
    \cup {[method |-> "POST", path |-> <<"mcp", "health">>, auth |-> "absent", body |-> NoBody]}

NoRequest == [method |-> "", path |-> <<>>, auth |-> "absent", body |-> NoBody]

----------------------------------------------------------------------------
\* Responses

JSONResponse(content, status) ==
    [status |-> status, media |-> "application/json", body |-> content]
PlainTextResponse(content, status) ==
    [status |-> status, media |-> "text/plain", body |-> Text(content)]
\* raise HTTPException(status_code, detail), as the framework answers it
HTTPException(status, detail) == JSONResponse(Dict([detail |-> Str(detail)]), status)
\* an exception no handler catches, as the server error middleware answers it
Unhandled(exc) == PlainTextResponse(exc, 500)
NoResponse == [status |-> 0, media |-> "", body |-> None]
----------------------------------------------------------------------------
\* Handlers

\* request.json(): json.loads of the raw body. Bytes that are not JSON raise
\* JSONDecodeError; bytes that do not decode raise UnicodeDecodeError.
json_loads(body) ==
    IF body.k = "json"
    THEN [ok |-> TRUE, value |-> body.doc, exc |-> ""]
    ELSE [ok |-> FALSE, value |-> None,
          exc |-> IF body.why = "non-utf8" THEN "UnicodeDecodeError"
                  ELSE "JSONDecodeError"]

\* An except clause that names the JSON error alone.
CaughtJSONDecodeError(exc) == exc = "JSONDecodeError"

\* The exception classes the handler's except clause catches (except Exception).
Caught(exc) == TRUE

\* Whether a Python value is falsy.
Falsy(v) ==
    \/ v.t = "null"
    \/ v.t = "str" /\ v.s = ""
    \/ v.t = "list" /\ v.l = <<>>

\* data.get(key) or default
dict_get_or(data, key, default) ==
    IF key \in DOMAIN data.d /\ ~Falsy(data.d[key]) THEN data.d[key] ELSE default

\* data.get(key, default)
dict_get(data, key, default) ==
    IF key \in DOMAIN data.d THEN data.d[key] ELSE default

Defaults ==
    [redirect_uris |-> List(<<>>),
     token_endpoint_auth_method |-> Str("client_secret_post"),
     grant_types |-> List(<<"authorization_code">>),
     response_types |-> List(<<"code">>),
     client_name |-> Str(""),
     scope |-> Str("")]

\* A client id taken from the request when it names one.
client_id_requested(cfg, data) == dict_get(data, "client_id", cfg.AUDIENCE)

client_id(cfg, data) == cfg.AUDIENCE
client_secret(cfg, data) == cfg.CLIENT_SECRET

\* A record whose response_types line reads the grant_types key.
response_data_swapped(cfg, t, data) ==
    [k \in {"client_id", "client_secret", "client_id_issued_at",
            "client_secret_expires_at"} \cup OptionalFields |->
        CASE k = "client_id" -> client_id(cfg, data)
          [] k = "client_secret" -> client_secret(cfg, data)
          [] k = "client_id_issued_at" -> Num(t)
          [] k = "client_secret_expires_at" -> Num(0)
          [] k = "response_types" -> dict_get(data, "grant_types", Defaults[k])
          [] OTHER -> dict_get(data, k, Defaults[k])]

response_data(cfg, t, data) ==
    [k \in {"client_id", "client_secret", "client_id_issued_at",
            "client_secret_expires_at"} \cup OptionalFields |->
        CASE k = "client_id" -> client_id(cfg, data)
          [] k = "client_secret" -> client_secret(cfg, data)
          [] k = "client_id_issued_at" -> Num(t)
          [] k = "client_secret_expires_at" -> Num(0)
          [] OTHER -> dict_get(data, k, Defaults[k])]

\* The response of POST /register.
register_response(cfg, t, body) ==
    LET parsed == json_loads(body)
    IN IF ~parsed.ok
       THEN IF Caught(parsed.exc)
            THEN JSONResponse(Dict([error |-> Str("Invalid JSON body"),
                                    details |-> Str(parsed.exc)]), 400)
            ELSE Unhandled(parsed.exc)
       ELSE IF parsed.value.t # "dict"
            THEN Unhandled("AttributeError")      \* data.get on a non-dict
            ELSE JSONResponse(Dict(response_data(cfg, t, parsed.value)), 201)

oauth_metadata_doc(cfg) ==
    Dict([issuer |-> cfg.ISSUER,
          authorization_endpoint |-> FStr(cfg.ISSUER, "/oauth/authorize"),
          token_endpoint |-> FStr(cfg.ISSUER, "/oauth/token"),
          jwks_uri |-> FStr(cfg.ISSUER, "/.well-known/jwks.json"),
          registration_endpoint |-> FStr(cfg.ISSUER, "/oauth/register"),
          response_types_supported |-> List(<<"code">>),
          code_challenge_methods_supported |-> List(<<"S256">>),
          token_endpoint_auth_methods_supported |-> List(<<"client_secret_post">>),
          grant_types_supported |-> List(<<"authorization_code", "refresh_token">>)])

openid_config_doc(cfg) ==
    Dict([issuer |-> cfg.ISSUER,
          authorization_endpoint |-> FStr(cfg.ISSUER, "/oauth/authorize"),
          token_endpoint |-> FStr(cfg.ISSUER, "/oauth/token"),
          jwks_uri |-> FStr(cfg.ISSUER, "/.well-known/jwks.json"),
          response_types_supported |-> List(<<"code">>),
          subject_types_supported |-> List(<<"public">>),
          id_token_signing_alg_values_supported |-> List(<<"RS256">>)])

oauth_protected_resource_doc(cfg) ==
    Dict([resource |-> cfg.BASE_URL,
          authorization_servers |-> List(<<cfg.ISSUER>>),
          jwks_uri |-> FStr(cfg.ISSUER, "/.well-known/jwks.json"),
          bearer_methods_supported |-> List(<<"header">>),
          resource_documentation |-> FStr(cfg.BASE_URL, "/docs")])

ExpiresIn == 3600

\* mcp._key_pair.create_token(subject, issuer, audience, scopes)
create_token(subject, issuer, audience, scopes) ==
    [t |-> "jwt", sub |-> subject, iss |-> issuer, aud |-> audience, scopes |-> scopes]

\* hasattr(mcp, "_key_pair")
HasKeyPair(mcp) == "_key_pair" \in mcp.attrs

\* The response of GET /dev/token.
dev_token_response(mcp, cfg) ==
    IF HasKeyPair(mcp)
    THEN JSONResponse(
           Dict([access_token |-> create_token("dev-user", cfg.ISSUER, cfg.AUDIENCE,
                                               <<"read", "write">>),
                 token_type |-> Str("Bearer"),
                 expires_in |-> Num(ExpiresIn),
                 scope |-> Str("read write")]), 200)
    ELSE HTTPException(500, "Key pair not available")

----------------------------------------------------------------------------
\* The state machine

Init ==
    /\ \E env \in Environs : config = LoadConfig(env)
    /\ production \in BOOLEAN
    /\ transport \in Transports
    /\ app = create_app(config, transport)
    /\ now = 0
    /\ req = NoRequest
    /\ resp = NoResponse
    /\ issued = {}
    /\ startup = config

Dispatch(r) == Resolve(app.routes, r.method, r.path)

oauth_metadata ==
    \E r \in Requests :
        /\ Dispatch(r) = "oauth_metadata"
        /\ req' = r
        /\ resp' = JSONResponse(oauth_metadata_doc(config), 200)
        /\ UNCHANGED <<config, production, transport, app, now, issued, startup>>

openid_config ==
    \E r \in Requests :
        /\ Dispatch(r) = "openid_config"
        /\ req' = r
        /\ resp' = JSONResponse(openid_config_doc(config), 200)
        /\ UNCHANGED <<config, production, transport, app, now, issued, startup>>

oauth_protected_resource ==
    \E r \in Requests :
        /\ Dispatch(r) = "oauth_protected_resource"
        /\ req' = r
        /\ resp' = JSONResponse(oauth_protected_resource_doc(config), 200)
        /\ UNCHANGED <<config, production, transport, app, now, issued, startup>>

\* The credentials a response carries, when it is a 201.
Credentials(s) ==
    IF s.status = 201
    THEN {[client_id |-> s.body.d["client_id"],
           client_secret |-> s.body.d["client_secret"],
           expires_at |-> s.body.d["client_secret_expires_at"]]}
    ELSE {}

\* A register handler that remembers the registered client in the module
\* globals.
register_remembering ==
    \E r \in Requests :
        /\ Dispatch(r) = "register"
        /\ req' = r
        /\ resp' = register_response(config, now, r.body)
        /\ issued' = issued \cup Credentials(resp')
        /\ config' = IF resp'.status = 201 /\ "client_id" \in DOMAIN r.body.doc.d
                     THEN [config EXCEPT !.AUDIENCE = r.body.doc.d["client_id"]]
                     ELSE config
        /\ UNCHANGED <<production, transport, app, now, startup>>

register ==
    \E r \in Requests :
        /\ Dispatch(r) = "register"
        /\ req' = r
        /\ resp' = register_response(config, now, r.body)
        /\ issued' = issued \cup Credentials(resp')
        /\ UNCHANGED <<config, production, transport, app, now, startup>>

get_dev_token ==
    \E r \in Requests :
        /\ Dispatch(r) = "get_dev_token"
        /\ req' = r
        /\ resp' = dev_token_response(app.mcp, config)
        /\ UNCHANGED <<config, production, transport, app, now, issued, startup>>

health_check ==
    \E r \in Requests :
        /\ Dispatch(r) = "health_check"
        /\ req' = r
        /\ resp' = PlainTextResponse("OK", 200)
        /\ UNCHANGED <<config, production, transport, app, now, issued, startup>>

\* No route matches the path: the router answers 404.
not_found ==
    \E r \in Requests :
        /\ Dispatch(r) = "not_found"
        /\ req' = r
        /\ resp' = PlainTextResponse("Not Found", 404)
        /\ UNCHANGED <<config, production, transport, app, now, issued, startup>>

\* A route matches the path but not the method: the router answers 405.
method_not_allowed ==
    \E r \in Requests :
        /\ Dispatch(r) = "method_not_allowed"
        /\ req' = r
        /\ resp' = PlainTextResponse("Method Not Allowed", 405)
        /\ UNCHANGED <<config, production, transport, app, now, issued, startup>>

\* Time passes.
Tick ==
    /\ now < MaxClock
    /\ now' = now + 1
    /\ UNCHANGED <<config, production, transport, app, req, resp, issued, startup>>

Next ==
    \/ oauth_metadata
    \/ openid_config
    \/ oauth_protected_resource
    \/ register
    \/ get_dev_token
    \/ health_check
    \/ not_found
    \/ method_not_allowed
    \/ Tick

Spec == Init /\ [][Next]_vars

----------------------------------------------------------------------------
\* Properties

IsRegisterPost == req.method = "POST" /\ req.path = <<"register">>
PostedJson == IsRegisterPost /\ req.body.k = "json"
PostedObject == PostedJson /\ req.body.doc.t = "dict"
IsGet(path) == req.method = "GET" /\ req.path = path

RecordKeys ==
    {"client_id", "client_secret", "client_id_issued_at", "client_secret_expires_at",
     "redirect_uris", "token_endpoint_auth_method", "grant_types", "response_types",
     "client_name", "scope"}

\* C1: every body posted to /register that parses as JSON, of any JSON type,
\* is answered 201.
C1_ValidJsonAnswered201 ==
    PostedJson => resp.status = 201

\* C2 as stated: every key of a posted JSON object, whatever the key, appears
\* in the response with the value the request gave it.
C2_EveryKeyEchoed ==
    PostedObject =>
        /\ resp.status = 201
        /\ \A k \in DOMAIN req.body.doc.d :
              /\ k \in DOMAIN resp.body.d
              /\ resp.body.d[k] = req.body.doc.d[k]

\* C2 as amended: in the 201 response to a posted JSON object, every key among
\* the six optional fields that the request carries has the request's value,
\* and the response holds the ten record fields and no other key.
C2_OptionalFieldsEchoed ==
    PostedObject /\ resp.status = 201 =>
        /\ DOMAIN resp.body.d = RecordKeys
        /\ \A k \in DOMAIN req.body.doc.d \cap OptionalFields :
              resp.body.d[k] = req.body.doc.d[k]

C2_Witness ==
    /\ PostedObject
    /\ resp.status = 201
    /\ "response_types" \in DOMAIN req.body.doc.d
    /\ req.body.doc.d["response_types"] = List(<<"https://c.example/cb">>)

\* C3: in the response to a posted JSON object, each of the six optional
\* fields the request lacks has its documented default, and each one the
\* request carries has the request's value, not the default.
C3_DefaultsWhenAbsent ==
    PostedObject =>
        LET d == req.body.doc.d
            out == resp.body.d
            Absent(k) == k \notin DOMAIN d
        IN /\ resp.status = 201
           /\ Absent("redirect_uris") => out["redirect_uris"] = [t |-> "list", l |-> <<>>]
           /\ Absent("token_endpoint_auth_method") =>
                 out["token_endpoint_auth_method"] = [t |-> "str", s |-> "client_secret_post"]
           /\ Absent("grant_types") =>
                 out["grant_types"] = [t |-> "list", l |-> <<"authorization_code">>]
           /\ Absent("response_types") =>
                 out["response_types"] = [t |-> "list", l |-> <<"code">>]
           /\ Absent("client_name") => out["client_name"] = [t |-> "str", s |-> ""]
           /\ Absent("scope") => out["scope"] = [t |-> "str", s |-> ""]
           /\ \A k \in OptionalFields : ~Absent(k) => out[k] = d[k]

C3_Witness ==
    /\ PostedObject
    /\ resp.status = 201
    /\ DOMAIN req.body.doc.d = {"scope"}
    /\ req.body.doc.d["scope"] = None
    /\ resp.body.d["scope"] = None
    /\ resp.body.d["grant_types"] = List(<<"authorization_code">>)

\* C4: a body posted to /register that does not parse as JSON is answered 400
\* with a JSON object whose keys are error and details, never a 5xx.
C4_MalformedAnswered400 ==
    IsRegisterPost /\ req.body.k = "bytes" =>
        /\ resp.status = 400
        /\ resp.media = "application/json"
        /\ resp.body.t = "dict"
        /\ DOMAIN resp.body.d = {"error", "details"}

C4_Witness ==
    /\ IsRegisterPost
    /\ req.body.k = "bytes"
    /\ req.body.why = "non-utf8"
    /\ resp.status = 400

\* C5: every 201 response so far, and the current one, carries the configured
\* audience as client_id, the configured secret as client_secret and
\* client_secret_expires_at = 0, whatever the request bodies were.
C5_FixedCredentials ==
    /\ \A c \in issued :
          /\ c.client_id = config.AUDIENCE
          /\ c.client_secret = config.CLIENT_SECRET
          /\ c.expires_at = [t |-> "int", n |-> 0]
    /\ Cardinality(issued) <= 1
    /\ resp.status = 201 =>
          /\ resp.body.d["client_id"] = config.AUDIENCE
          /\ resp.body.d["client_secret"] = config.CLIENT_SECRET
          /\ resp.body.d["client_secret_expires_at"] = [t |-> "int", n |-> 0]

C5_Witness ==
    /\ PostedObject
    /\ resp.status = 201
    /\ "client_id" \in DOMAIN req.body.doc.d
    /\ req.body.doc.d["client_id"] = Str("x")
    /\ issued # {}
    /\ now > 0

\* C7: GET /health on the served application is answered 200 with the plain
\* text "OK", whatever the Authorization header.
C7_HealthAtRoot ==
    IsGet(<<"health">>) =>
        /\ resp.status = 200
        /\ resp.media = "text/plain"
        /\ resp.body = [t |-> "text", s |-> "OK"]

\* The applications create_app can build.
Builds ==
    {[cfg |-> LoadConfig(env), app |-> create_app(LoadConfig(env), tr)] :
        env \in Environs, tr \in Transports}

\* C8: GET /dev/token is answered 200 with a Bearer token for "dev-user" when
\* the server has a key pair and 500 "Key pair not available" exactly when it
\* has none, and create_app can build a server for each of the two outcomes.
C8_DevTokenOutcomes ==
    /\ IsGet(<<"dev", "token">>) =>
          IF HasKeyPair(app.mcp)
          THEN /\ resp.status = 200
               /\ resp.body.d["token_type"] = [t |-> "str", s |-> "Bearer"]
               /\ resp.body.d["expires_in"] = [t |-> "int", n |-> 3600]
               /\ resp.body.d["access_token"].sub = "dev-user"
          ELSE /\ resp.status = 500
               /\ resp.body.d["detail"] = [t |-> "str", s |-> "Key pair not available"]
    /\ \E b \in Builds : dev_token_response(b.app.mcp, b.cfg).status = 200
    /\ \E b \in Builds : dev_token_response(b.app.mcp, b.cfg).status = 500

\* C9: in a production deployment the application has no /dev/token route: a
\* GET /dev/token finds no handler and is answered 404.
C9_NoDevTokenInProduction ==
    production /\ IsGet(<<"dev", "token">>) => resp.status = 404

DiscoveryDoc(path, cfg) ==
    CASE path = <<".well-known", "oauth-authorization-server">> -> oauth_metadata_doc(cfg)
      [] path = <<".well-known", "openid-configuration">> -> openid_config_doc(cfg)
      [] path = <<".well-known", "oauth-protected-resource">> -> oauth_protected_resource_doc(cfg)

\* C10: after any sequence of requests the configuration and the application
\* are those of process start, and a discovery route answers 200 with the
\* document the start-up configuration determines.
C10_HandlersLeaveStateAlone ==
    /\ config = startup
    /\ app = create_app(startup, transport)
    /\ \A p \in DiscoveryPaths :
          IsGet(p) => /\ resp.status = 200
                      /\ resp.body = DiscoveryDoc(p, startup)

C10_Witness ==
    /\ issued # {}
    /\ now > 0
    /\ IsGet(<<".well-known", "oauth-protected-resource">>)
    /\ resp.status = 200

====
